---- MODULE Spec2Model ----
(***************************************************************************)
(* Intent classification -> agent routing -> tool selection -> response    *)
(* synthesis pipeline of the chatbot package (src/src/chatbot).            *)
(*                                                                         *)
(* Text is a sequence of tokens.  A token is a fence character (backtick   *)
(* or acute accent), a whitespace character, the word "json", a word, or   *)
(* a chunk of JSON text carrying the value json.loads decodes it to.       *)
(* Numbers that stand for confidences are in hundredths (90 is 0.90).      *)
(***************************************************************************)
EXTENDS Integers, Sequences, FiniteSets, TLC

VARIABLES agents, intent_definitions, tools, last, capacity, memory, added

vars == <<agents, intent_definitions, tools, last, capacity, memory, added>>

\* the orchestrator, its classifier and the agents
regvars == <<agents, intent_definitions, tools>>

\* a RollingMemory: its capacity, its deque, and every entry added since the last clear
memvars == <<capacity, memory, added>>

(***************************************************************************)
(* Bounds                                                                  *)
(***************************************************************************)
\* longest run of fence characters the model wraps around its answer
MaxFence == 1

(***************************************************************************)
(* JSON values as json.loads returns them                                  *)
(***************************************************************************)
EmptyF == [k \in {} |-> 0]

\* F applied to the value of x, computed once
With(x, F(_)) == CHOOSE r \in {F(v) : v \in {x}} : TRUE

J(t, s, n, f) == [t |-> t, s |-> s, n |-> n, f |-> f]

JStr(s) == J("str", s, 0, EmptyF)

JNum(n) == J("num", "", n, EmptyF)

JNull == J("null", "", 0, EmptyF)

JList == J("list", "", 0, EmptyF)

JObj(f) == J("obj", "", 0, f)

\* dict.get(key, default) on a decoded JSON object
DictGet(obj, key, default) == IF key \in DOMAIN obj.f THEN obj.f[key] ELSE default

\* Python's hash(): lists and dicts are unhashable
Hashable(v) == v.t \notin {"list", "obj"}

\* str(v) as an f-string renders it
PyStr(v) ==
  CASE v.t = "str" -> v.s
    [] v.t = "null" -> "None"
    [] v.t = "num" -> ToString(v.n)
    [] v.t = "list" -> "[]"
    [] OTHER -> "{}"

(***************************************************************************)
(* Text                                                                    *)
(***************************************************************************)
Tok(c) == [ch |-> c, val |-> JNull]

JTok(v) == [ch |-> "J", val |-> v]

BT == Tok("backtick")

AC == Tok("acute")

WS == Tok(" ")

JSONWORD == Tok("json")

\* a Python str holding the characters of s
T(s) == IF s = "" THEN <<>> ELSE <<Tok(s)>>

IsSpace(tok) == tok = WS

IsTick(tok) == tok \in {BT, AC}

RECURSIVE LStrip(_)
LStrip(s) == IF s # <<>> /\ IsSpace(Head(s)) THEN LStrip(Tail(s)) ELSE s

RECURSIVE RStrip(_)
RStrip(s) ==
  IF s # <<>> /\ IsSpace(s[Len(s)]) THEN RStrip(SubSeq(s, 1, Len(s) - 1)) ELSE s

\* str.strip()
Strip(s) == RStrip(LStrip(s))

RECURSIVE LStripTicks(_)
LStripTicks(s) == IF s # <<>> /\ IsTick(Head(s)) THEN LStripTicks(Tail(s)) ELSE s

RECURSIVE RStripTicks(_)
RStripTicks(s) ==
  IF s # <<>> /\ IsTick(s[Len(s)]) THEN RStripTicks(SubSeq(s, 1, Len(s) - 1)) ELSE s

StartsWith(s, p) == Len(s) >= Len(p) /\ SubSeq(s, 1, Len(p)) = p

EndsWith(s, p) == Len(s) >= Len(p) /\ SubSeq(s, Len(s) - Len(p) + 1, Len(s)) = p

DropFirst(s, n) == SubSeq(s, n + 1, Len(s))

DropLast(s, n) == SubSeq(s, 1, Len(s) - n)

\* re.sub of a leading triple backtick + json + whitespace (first sub)
SubJsonFence(s) ==
  IF StartsWith(s, <<BT, BT, BT, JSONWORD>>) THEN LStrip(DropFirst(s, 4)) ELSE s

\* re.sub of a leading triple backtick + whitespace (second sub)
SubOpenFence(s) ==
  IF StartsWith(s, <<BT, BT, BT>>) THEN LStrip(DropFirst(s, 3)) ELSE s

\* re.sub of whitespace + a trailing triple backtick (third sub)
SubCloseFence(s) ==
  IF EndsWith(s, <<BT, BT, BT>>) THEN RStrip(DropLast(s, 3)) ELSE s

\* re.sub of a leading run of backticks/acutes + whitespace (fourth sub)
SubOpenTicks(s) == IF s # <<>> /\ IsTick(Head(s)) THEN LStrip(LStripTicks(s)) ELSE s

\* a fifth sub that removes one trailing backtick/acute only
SubCloseTicksOne(s) ==
  IF s # <<>> /\ IsTick(s[Len(s)]) THEN RStrip(DropLast(s, 1)) ELSE s

\* re.sub of whitespace + a trailing run of backticks/acutes (fifth sub)
SubCloseTicks(s) ==
  IF s # <<>> /\ IsTick(s[Len(s)]) THEN RStrip(RStripTicks(s)) ELSE s

\* the fence stripping applied to a model response before json.loads
Sanitize(response) ==
  With(Strip(response), LAMBDA s0 :
  With(SubJsonFence(s0), LAMBDA s1 :
  With(SubOpenFence(s1), LAMBDA s2 :
  With(SubCloseFence(s2), LAMBDA s3 :
  With(SubOpenTicks(s3), LAMBDA s4 :
  With(SubCloseTicks(s4), LAMBDA s5 : Strip(s5)))))))

\* json.loads: the text must be exactly one chunk of JSON
JsonLoads(text) ==
  IF Len(text) = 1 /\ text[1].ch = "J"
    THEN [exc |-> "", msg |-> "", val |-> text[1].val]
    ELSE [exc |-> "JSONDecodeError", msg |-> "Expecting value", val |-> JNull]

(***************************************************************************)
(* Results of a call: exc is "" when the call returned, else the name of   *)
(* the exception it raised (msg is str(e)).                                *)
(***************************************************************************)
Ok(v) == [exc |-> "", msg |-> "", val |-> v]

Raise(exc, msg) == [exc |-> exc, msg |-> msg, val |-> JNull]

\* float(v)
PyFloat(v) ==
  CASE v.t = "num" -> Ok(v.n)
    [] v.t = "str" /\ v.s = "0.9" -> Ok(90)
    [] v.t = "str" -> Raise("ValueError", "could not convert string to float: '" \o v.s \o "'")
    [] OTHER -> Raise("TypeError", "float() argument must be a string or a real number")

(***************************************************************************)
(* text_generator.generate_text.  A behaviour of the model callable is     *)
(* either a raise or the text it returns.                                  *)
(***************************************************************************)
ModelRaises(m) == [raises |-> TRUE, msg |-> m, text |-> <<>>]

ModelReturns(text) == [raises |-> FALSE, msg |-> "", text |-> text]

GenerateText(model, beh) ==
  IF model = "None"
    THEN [exc |-> "TypeError", msg |-> "'NoneType' object is not callable", text |-> <<>>]
  ELSE IF beh.raises THEN [exc |-> "RuntimeError", msg |-> beh.msg, text |-> <<>>]
  ELSE [exc |-> "", msg |-> "", text |-> Strip(beh.text)]

(***************************************************************************)
(* intent_classifier.LLMIntentClassifier                                   *)
(* intent_definitions is the dict in insertion order: a sequence of        *)
(* [name, desc] with distinct names.                                       *)
(***************************************************************************)
DefNames(defs) == {defs[i].name : i \in 1..Len(defs)}

Intent(name, confidence, entities, reasoning) ==
  [name |-> name, confidence |-> confidence, entities |-> entities, reasoning |-> reasoning]

\* default_intent of classify
DefaultIntent(defs) ==
  IF "out_of_scope" \in DefNames(defs) THEN "out_of_scope"
  ELSE IF Len(defs) > 0 THEN defs[1].name
  ELSE "out_of_scope"

\* the Intent of the JSONDecodeError branch
ParseFailureIntent(defs) ==
  Intent(JStr("out_of_scope"), 50, JObj(EmptyF), JStr("Failed to parse LLM response - using default"))

\* an except branch that names the literal fallback, as the JSONDecodeError branch does
ErrorIntentLiteral(defs, msg) ==
  Intent(JStr("out_of_scope"), 0, JObj(EmptyF), JStr("Classification error: " \o msg))

\* the Intent of the except Exception branch
ErrorIntent(defs, msg) ==
  Intent(JStr(DefaultIntent(defs)), 0, JObj(EmptyF), JStr("Classification error: " \o msg))

\* an Intent construction that drops the extracted entities
BuildIntentNoEntities(result) ==
  IF result.t # "obj"
    THEN Raise("AttributeError", "'" \o result.t \o "' object has no attribute 'get'")
    ELSE LET conf == PyFloat(DictGet(result, "confidence", JNum(50)))
         IN IF conf.exc # "" THEN Raise(conf.exc, conf.msg)
            ELSE Ok(Intent(DictGet(result, "intent", JStr("out_of_scope")),
                           conf.val,
                           JObj(EmptyF),
                           DictGet(result, "reasoning", JStr(""))))

\* Intent(name=result.get(...), confidence=float(result.get(...)), ...)
BuildIntent(result) ==
  IF result.t # "obj"
    THEN Raise("AttributeError", "'" \o result.t \o "' object has no attribute 'get'")
    ELSE LET conf == PyFloat(DictGet(result, "confidence", JNum(50)))
         IN IF conf.exc # "" THEN Raise(conf.exc, conf.msg)
            ELSE Ok(Intent(DictGet(result, "intent", JStr("out_of_scope")),
                           conf.val,
                           DictGet(result, "entities", JObj(EmptyF)),
                           DictGet(result, "reasoning", JStr(""))))

\* get_intent_definitions: a copy of the registry
GetIntentDefinitions(defs) == defs

\* the definitions shown to the model when nothing is registered
FallbackDefinitions ==
  <<[name |-> "out_of_scope", desc |-> T("Default intent when no agents are registered.")]>>

\* a prompt builder that moves the first definition it lists to the end of the registry
BuildClassificationPromptRotates(defs) ==
  With(GetIntentDefinitions(defs), LAMBDA definitions :
    [definitions |-> IF definitions = <<>> THEN FallbackDefinitions ELSE definitions,
     registry |-> IF defs = <<>> THEN defs ELSE Tail(defs) \o <<Head(defs)>>])

\* a prompt builder that writes the fallback definitions into the registry
BuildClassificationPromptStoresDefault(defs) ==
  With(GetIntentDefinitions(defs), LAMBDA definitions :
    IF definitions = <<>>
      THEN [definitions |-> FallbackDefinitions, registry |-> FallbackDefinitions]
      ELSE [definitions |-> definitions, registry |-> defs])

\* _build_classification_prompt: the definitions the prompt lists and the registry
\* after the call
BuildClassificationPrompt(defs) ==
  With(GetIntentDefinitions(defs), LAMBDA definitions :
    [definitions |-> IF definitions = <<>> THEN FallbackDefinitions ELSE definitions,
     registry |-> defs])

\* an except clause that names the generation failure only
ClassifyCatchesRuntimeOnly(exc) == exc = "RuntimeError"

\* which exceptions the except clause of classify catches
ClassifyCatches(exc) == TRUE

\* LLMIntentClassifier.classify; the result is [exc, msg, val] with val the Intent
Classify(defs, model, beh) ==
  LET Handle(exc, msg) == IF ClassifyCatches(exc) THEN Ok(ErrorIntent(defs, msg))
                          ELSE Raise(exc, msg)
  IN With(GenerateText(model, beh), LAMBDA gen :
       IF gen.exc # "" THEN Handle(gen.exc, gen.msg)
       ELSE With(JsonLoads(Sanitize(gen.text)), LAMBDA parsed :
              IF parsed.exc # "" THEN Ok(ParseFailureIntent(defs))
              ELSE With(BuildIntent(parsed.val), LAMBDA built :
                     IF built.exc # "" THEN Handle(built.exc, built.msg)
                     ELSE Ok(built.val))))

\* a registration that stores the definition under any name, the empty one included
RegisterIntentUnchecked(defs, intent, description) ==
  LET d == Strip(IF description = <<>> THEN T("No description provided.") ELSE description)
      entry == [name |-> intent, desc |-> d]
  IN IF intent \in DefNames(defs)
       THEN [exc |-> "", msg |-> "",
             val |-> [i \in 1..Len(defs) |-> IF defs[i].name = intent THEN entry ELSE defs[i]]]
       ELSE [exc |-> "", msg |-> "", val |-> Append(defs, entry)]

\* LLMIntentClassifier.register_intent; the result's val is the new registry
RegisterIntent(defs, intent, description) ==
  IF intent = "" THEN Raise("ValueError", "Intent name cannot be empty.")
  ELSE LET d == Strip(IF description = <<>> THEN T("No description provided.") ELSE description)
           entry == [name |-> intent, desc |-> d]
       IN IF intent \in DefNames(defs)
            THEN [exc |-> "", msg |-> "",
                  val |-> [i \in 1..Len(defs) |-> IF defs[i].name = intent THEN entry ELSE defs[i]]]
            ELSE [exc |-> "", msg |-> "", val |-> Append(defs, entry)]

\* LLMIntentClassifier.unregister_intent: the registry after the call
UnregisterIntent(defs, intent) ==
  IF intent \in DefNames(defs)
    THEN LET Other(d) == d.name # intent IN SelectSeq(defs, Other)
    ELSE defs

(***************************************************************************)
(* tool.Tool                                                               *)
(***************************************************************************)
\* Optional[str]
None == [some |-> FALSE, text |-> <<>>]

Some(text) == [some |-> TRUE, text |-> text]

\* truth value of an Optional[str]
Truthy(o) == o.some /\ o.text # <<>>

\* truth value of a decoded JSON value
JTruthy(v) ==
  CASE v.t = "str" -> v.s # ""
    [] v.t = "num" -> v.n # 0
    [] v.t = "null" -> FALSE
    [] v.t = "list" -> v.n # 0
    [] OTHER -> DOMAIN v.f # {}

\* one entry of the call log of an operation
Event(kind, id, arg) == [kind |-> kind, id |-> id, arg |-> arg]

\* a behaviour of a wrapped callable: it raises an exception whose str() is m, or
\* returns the value v
ToolRaises(m) == [raises |-> TRUE, msg |-> m, val |-> JNull]

ToolReturns(v) == [raises |-> FALSE, msg |-> "", val |-> v]

\* a call that lets the exception of the callable through
ToolCallPropagates(beh) ==
  IF beh.raises THEN [exc |-> "Exception", msg |-> beh.msg, text |-> <<>>]
  ELSE [exc |-> "", msg |-> "", text |-> T(PyStr(beh.val))]

\* Tool.call(**kwargs): [exc, msg, text] with text the str it returns
ToolCall(beh) ==
  [exc |-> "", msg |-> "",
   text |-> IF beh.raises THEN T("Error: " \o beh.msg) ELSE T(PyStr(beh.val))]

\* the Tool objects: two of them carry the same name
ToolIds == {"calculator", "clock", "abacus"}

ToolTable ==
  [calculator |-> [name |-> "calculator"],
   clock |-> [name |-> "get_time"],
   abacus |-> [name |-> "calculator"]]

(***************************************************************************)
(* agent.Agent                                                             *)
(* The tools of an agent are the dict self.tools: tool name -> Tool.        *)
(***************************************************************************)
\* Agent.register_tool: self.tools[tool.name] = tool
RegisterToolOp(atools, t) ==
  [k \in DOMAIN atools \cup {ToolTable[t].name} |->
     IF k = ToolTable[t].name THEN t ELSE atools[k]]

AgentIds == {"greeter", "calc", "bare"}

AgentTable ==
  [greeter |-> [name |-> "Greeter Agent", description |-> <<WS, Tok("Handles greetings"), WS>>,
                model |-> "llm"],
   calc |-> [name |-> "Calculator Agent", description |-> <<>>, model |-> "llm"],
   bare |-> [name |-> "Bare Agent", description |-> T("Not configured"), model |-> "None"]]

\* the model is called only when there is a model to call
ModelEvent(model, id) == IF model = "None" THEN <<>> ELSE <<Event("model", id, JNull)>>

\* "tool_name" not in result
LacksToolName(result) ==
  CASE result.t = "obj" -> Ok("tool_name" \notin DOMAIN result.f)
    [] result.t \in {"list", "str"} -> Ok(TRUE)
    [] OTHER -> Raise("TypeError", "argument of type '" \o result.t \o "' is not iterable")

\* a selection that falls back to the calculator when the answer names no tool
ToolNameOrCalculator(result) ==
  With(LacksToolName(result), LAMBDA lacks :
    IF lacks.exc # "" THEN [exc |-> lacks.exc, msg |-> lacks.msg, missing |-> FALSE, val |-> JNull]
    ELSE IF lacks.val /\ result.t = "obj"
      THEN [exc |-> "", msg |-> "", missing |-> FALSE, val |-> JStr("calculator")]
    ELSE IF lacks.val THEN [exc |-> "", msg |-> "", missing |-> TRUE, val |-> JNull]
    ELSE [exc |-> "", msg |-> "", missing |-> FALSE, val |-> DictGet(result, "tool_name", JNull)])

\* the tool_name check and tool_name = result.get("tool_name"); missing stands for
\* the early return None
ToolNameOf(result) ==
  With(LacksToolName(result), LAMBDA lacks :
    IF lacks.exc # "" THEN [exc |-> lacks.exc, msg |-> lacks.msg, missing |-> FALSE, val |-> JNull]
    ELSE IF lacks.val THEN [exc |-> "", msg |-> "", missing |-> TRUE, val |-> JNull]
    ELSE [exc |-> "", msg |-> "", missing |-> FALSE, val |-> DictGet(result, "tool_name", JNull)])

\* an extraction that reads the key 'entities' only
ExtractEntitiesExactKey(result) ==
  LET e1 == DictGet(result, "entities", JNull)
  IN IF JTruthy(e1) THEN e1 ELSE JObj(EmptyF)

\* result.get("entities") or result.get("entieties") or result.get("entitites") or {}
ExtractEntities(result) ==
  LET e1 == DictGet(result, "entities", JNull)
      e2 == DictGet(result, "entieties", JNull)
      e3 == DictGet(result, "entitites", JNull)
  IN IF JTruthy(e1) THEN e1 ELSE IF JTruthy(e2) THEN e2 ELSE IF JTruthy(e3) THEN e3
     ELSE JObj(EmptyF)

\* the strings of the model in which Python finds the substring "input"
ContainsInput(s) == s \in {"input", "the input"}

\* "input" in entities, then entities.get("input", {}) or entities itself
UnwrapInput(entities) ==
  CASE entities.t = "obj" ->
         Ok(IF "input" \in DOMAIN entities.f THEN entities.f["input"] ELSE entities)
    [] entities.t = "str" ->
         IF ContainsInput(entities.s)
           THEN Raise("AttributeError", "'str' object has no attribute 'get'")
           ELSE Ok(entities)
    [] entities.t = "list" -> Ok(entities)
    [] OTHER -> Raise("TypeError", "argument of type '" \o entities.t \o "' is not iterable")

\* a lookup that takes some registered tool whenever the name is known
ToolsGetSome(atools, tool_name) ==
  IF tool_name.t = "str" /\ tool_name.s \in DOMAIN atools
    THEN atools[CHOOSE k \in DOMAIN atools : TRUE]
    ELSE "none"

\* if tool_name in self.tools: tool = self.tools[tool_name]; "none" when it is not
ToolsGet(atools, tool_name) ==
  IF tool_name.t = "str" /\ tool_name.s \in DOMAIN atools THEN atools[tool_name.s] ELSE "none"

\* an except clause that names the parse failure only
UseToolCatchesDecodeOnly(exc) == exc = "JSONDecodeError"

\* which exceptions the except clause of _use_tool catches
UseToolCatches(exc) == TRUE

\* Agent._use_tool: [exc, msg, result |-> Optional[str], events |-> calls made]
UseTool(a, atools, selbeh, toolbeh) ==
  LET model == AgentTable[a].model
      called == ModelEvent(model, "select")
      Out(exc, msg, result, events) ==
        [exc |-> exc, msg |-> msg, result |-> result, events |-> events]
      NoTool == Out("", "", None, called)
      Handle(exc, msg, events) ==
        IF UseToolCatches(exc) THEN Out("", "", None, events) ELSE Out(exc, msg, None, events)
      Invoke(tool, input) ==
        With(ToolCall(toolbeh), LAMBDA r :
          With(called \o <<Event("tool", tool, JObj([k \in {"input"} |-> input]))>>,
               LAMBDA events :
            IF r.exc # "" THEN Handle(r.exc, r.msg, events)
            ELSE Out("", "", Some(r.text), events)))
      Dispatch(tool_name, input) ==
        IF input.exc # "" THEN Handle(input.exc, input.msg, called)
        ELSE IF ~Hashable(tool_name)
          THEN Handle("TypeError", "unhashable type: '" \o tool_name.t \o "'", called)
        ELSE With(ToolsGet(atools, tool_name), LAMBDA tool :
               IF tool = "none" THEN NoTool ELSE Invoke(tool, input.val))
  IN With(GenerateText(model, selbeh), LAMBDA gen :
       IF gen.exc # "" THEN Handle(gen.exc, gen.msg, called)
       ELSE With(JsonLoads(Sanitize(gen.text)), LAMBDA parsed :
              IF parsed.exc # "" THEN Handle(parsed.exc, parsed.msg, called)
              ELSE With(ToolNameOf(parsed.val), LAMBDA tool_name :
                     IF tool_name.exc # "" THEN Handle(tool_name.exc, tool_name.msg, called)
                     ELSE IF tool_name.missing THEN NoTool
                     ELSE With(UnwrapInput(ExtractEntities(parsed.val)), LAMBDA input :
                            Dispatch(tool_name.val, input)))))

\* a template choice that looks at the intent only
ResponseTemplateByIntent(intent, tool_result) ==
  IF intent = JStr("greeting") THEN "greeting"
  ELSE IF intent = JStr("out_of_scope") THEN "out_of_scope"
  ELSE "generic"

\* the template _generate_response builds its prompt from
ResponseTemplate(intent, tool_result) ==
  IF Truthy(tool_result) THEN "tool_response"
  ELSE IF intent = JStr("greeting") THEN "greeting"
  ELSE IF intent = JStr("out_of_scope") THEN "out_of_scope"
  ELSE "generic"

\* the prompt of _generate_response: its template and the text the template is filled with
ResponsePrompt(intent, tool_result) ==
  With(ResponseTemplate(intent, tool_result), LAMBDA template :
    [template |-> template,
     arg |-> IF template = "tool_response" THEN tool_result.text ELSE T(PyStr(intent))])

\* no prompt was built
NoPrompt == [template |-> "none", arg |-> <<>>]

\* the value of the except branch of _generate_response, without the tool result
FailureTextApology(tool_result) == T("I apologize, I'm having trouble responding.")

\* tool_result or "I apologize, I'm having trouble responding."
FailureText(tool_result) ==
  IF Truthy(tool_result) THEN tool_result.text
  ELSE T("I apologize, I'm having trouble responding.")

\* a synthesis that asks the model a second time when the first call fails
GenerateResponseRetry(a, intent, tool_result, synbeh) ==
  LET model == AgentTable[a].model
  IN With(ResponsePrompt(intent, tool_result), LAMBDA prompt :
       With(GenerateText(model, synbeh), LAMBDA gen :
         [text |-> IF gen.exc = "" THEN Strip(gen.text) ELSE FailureText(tool_result),
          events |-> IF gen.exc = "" THEN ModelEvent(model, prompt.template)
                     ELSE ModelEvent(model, prompt.template) \o ModelEvent(model, prompt.template),
          prompt |-> prompt]))

\* Agent._generate_response: [text, events, prompt]
GenerateResponse(a, intent, tool_result, synbeh) ==
  LET model == AgentTable[a].model
  IN With(ResponsePrompt(intent, tool_result), LAMBDA prompt :
       With(GenerateText(model, synbeh), LAMBDA gen :
         [text |-> IF gen.exc = "" THEN Strip(gen.text) ELSE FailureText(tool_result),
          events |-> ModelEvent(model, prompt.template),
          prompt |-> prompt]))

\* a reply without a model that is the apology of the synthesis fallback
NotConfiguredTextApology(tool_result) ==
  IF Truthy(tool_result) THEN tool_result.text
  ELSE T("I apologize, I'm having trouble responding.")

\* tool_result or "I'm not configured properly."
NotConfiguredText(tool_result) ==
  IF Truthy(tool_result) THEN tool_result.text
  ELSE T("I'm not configured properly.")

\* Agent.execute: [exc, msg, text, events, tool_result, prompt]
AgentExecute(a, atools, intent_name, selbeh, toolbeh, synbeh) ==
  LET Out(exc, msg, text, events, tool_result, prompt) ==
        [exc |-> exc, msg |-> msg, text |-> text, events |-> events,
         tool_result |-> tool_result, prompt |-> prompt]
  IN With(IF DOMAIN atools # {} THEN UseTool(a, atools, selbeh, toolbeh)
          ELSE [exc |-> "", msg |-> "", result |-> None, events |-> <<>>], LAMBDA used :
       IF used.exc # "" THEN Out(used.exc, used.msg, <<>>, used.events, None, NoPrompt)
       ELSE IF AgentTable[a].model # "None"
         THEN With(GenerateResponse(a, intent_name, used.result, synbeh), LAMBDA gen :
                Out("", "", gen.text, used.events \o gen.events, used.result, gen.prompt))
       ELSE Out("", "", NotConfiguredText(used.result), used.events, used.result, NoPrompt))

(***************************************************************************)
(* agent.AgentOrchestrator                                                 *)
(***************************************************************************)
\* a lookup by the Intent object instead of its name: never finds an agent
AgentsGetByIntent(ags, name) == "none"

\* a lookup that falls back to some registered agent
AgentsGetOrAny(ags, name) ==
  IF name.t = "str" /\ name.s \in DOMAIN ags THEN ags[name.s]
  ELSE IF DOMAIN ags # {} THEN ags[CHOOSE k \in DOMAIN ags : TRUE]
  ELSE "none"

\* self.agents.get(intent.name): "none" stands for None
AgentsGet(ags, name) ==
  IF name.t = "str" /\ name.s \in DOMAIN ags THEN ags[name.s] ELSE "none"

\* AgentOrchestrator.execute: [exc, msg, ret, intent, agent, response, events]
OrchExecute(ags, defs, tls, clsbeh, selbeh, toolbeh, synbeh) ==
  LET classified == <<Event("model", "classify", JNull)>>
      Out(exc, msg, ret, intent, agent, response, events) ==
        [exc |-> exc, msg |-> msg, ret |-> ret, intent |-> intent, agent |-> agent,
         response |-> response, events |-> events]
      Route(intent) ==
        IF ~Hashable(intent.name)
          THEN Out("TypeError", "unhashable type: '" \o intent.name.t \o "'", <<>>, intent,
                   "none", <<>>, classified)
        ELSE With(AgentsGet(ags, intent.name), LAMBDA a :
               IF a = "none"
                 THEN Out("", "", T("I don't know how to handle: " \o PyStr(intent.name)),
                          intent, "none", <<>>, classified)
               ELSE With(AgentExecute(a, tls[a], intent.name, selbeh, toolbeh, synbeh),
                         LAMBDA r :
                      IF r.exc # ""
                        THEN Out(r.exc, r.msg, <<>>, intent, a, <<>>,
                                 classified \o <<Event("agent", a, JNull)>> \o r.events)
                      ELSE Out("", "", T("[" \o AgentTable[a].name \o "] ") \o r.text,
                               intent, a, r.text,
                               classified \o <<Event("agent", a, JNull)>> \o r.events)))
  IN With(Classify(defs, "llm", clsbeh), LAMBDA cls :
       IF cls.exc # ""
         THEN Out(cls.exc, cls.msg, <<>>, ErrorIntent(defs, ""), "none", <<>>, classified)
       ELSE Route(cls.val))

\* AgentOrchestrator.register_agent: [exc, agents, defs] after the call
RegisterAgentOp(ags, defs, intent, a) ==
  LET stored == [k \in DOMAIN ags \cup {intent} |-> IF k = intent THEN a ELSE ags[k]]
      description == IF AgentTable[a].description # <<>> THEN AgentTable[a].description
                     ELSE T("Agent responsible for '" \o intent \o "'")
  IN With(RegisterIntent(defs, intent, description), LAMBDA reg :
       IF reg.exc # "" THEN [exc |-> reg.exc, agents |-> stored, defs |-> defs]
       ELSE [exc |-> "", agents |-> stored, defs |-> reg.val])

(***************************************************************************)
(* Inputs                                                                  *)
(***************************************************************************)
\* intent names passed to register_agent
IntentNames == {"", "greeting", "calculate", "out_of_scope"}

\* agents passed to register_agent
RoutedAgents == {"greeter", "calc", "bare"}

Reverse(s) == [i \in 1..Len(s) |-> s[Len(s) + 1 - i]]

\* runs of fence characters and whitespace the model puts around its answer
FenceRuns == UNION {[1..n -> {BT, AC, WS}] : n \in 0..MaxFence}

Plain == [pre |-> <<>>, post |-> <<>>]

JsonFence == [pre |-> <<BT, BT, BT, JSONWORD, WS>>, post |-> <<WS, BT, BT, BT>>]

Wrappers ==
  {[pre |-> p, post |-> Reverse(p)] : p \in FenceRuns}
    \cup {JsonFence,
          [pre |-> <<BT, BT, BT>>, post |-> <<BT, BT, BT>>],
          [pre |-> <<Tok("Sure:"), WS>>, post |-> <<>>]}

Wrap(w, tok) == w.pre \o <<tok>> \o w.post

RequiredKeys == {"intent", "confidence", "entities", "reasoning"}

IntentValues ==
  {JStr(n) : n \in {"", "greeting", "calculate", "out_of_scope", "unknown_x"}}
    \cup {JNull, JList, JObj(EmptyF)}

ConfidenceValues == {JNum(90), JNum(0), JNum(150), JStr("0.9"), JStr("high"), JNull}

EntitiesValues == {JObj(EmptyF), JObj([k \in {"expression"} |-> JStr("5 + 3")]), JList}

ReasoningValues == {JStr("math"), JNum(7)}

BaseObject ==
  [intent |-> JStr("calculate"), confidence |-> JNum(90), entities |-> JObj(EmptyF),
   reasoning |-> JStr("math")]

Restrict(f, K) == [k \in K |-> f[k]]

\* decoded classification answers: the base object with some keys dropped or one value changed
ClassifyObjects ==
  {JObj(Restrict(BaseObject, K)) : K \in SUBSET RequiredKeys}
    \cup {JObj([BaseObject EXCEPT !.intent = v]) : v \in IntentValues}
    \cup {JObj([BaseObject EXCEPT !.confidence = v]) : v \in ConfidenceValues}
    \cup {JObj([BaseObject EXCEPT !.entities = v]) : v \in EntitiesValues}
    \cup {JObj([BaseObject EXCEPT !.reasoning = v]) : v \in ReasoningValues}
    \cup {JObj([k \in {"intent"} |-> JStr("greeting")])}

ClassifyPayloads ==
  {JTok(v) : v \in ClassifyObjects \cup {JList, JStr("hello"), JNum(5), JNull}}
    \cup {Tok("I think the user wants math")}

\* the answers every fence is tried around: a complete object and a sentence
FencedPayloads ==
  {JTok(JObj([BaseObject EXCEPT !.entities = JObj([k \in {"expression"} |-> JStr("5 + 3")])])),
   Tok("I think the user wants math")}

ClassifyBehaviours ==
  {ModelRaises("model crashed")}
    \cup {ModelReturns(Wrap(Plain, tok)) : tok \in ClassifyPayloads}
    \cup {ModelReturns(Wrap(w, tok)) : w \in Wrappers, tok \in FencedPayloads}

\* the classification behaviours execute is driven with: every intent value, the
\* fallback paths, and one fenced answer
ExecutePayloads ==
  {JTok(JObj([BaseObject EXCEPT !.intent = v])) : v \in IntentValues}
    \cup {JTok(JObj(EmptyF)), JTok(JList), Tok("I think the user wants math")}

ExecuteBehaviours ==
  {ModelRaises("model crashed")}
    \cup {ModelReturns(Wrap(Plain, tok)) : tok \in ExecutePayloads}
    \cup {ModelReturns(Wrap(JsonFence, JTok(JObj(BaseObject))))}

SelectObject(name, key, ents) ==
  JObj([k \in {"tool_name", key} |-> IF k = "tool_name" THEN name ELSE ents])

InputBag == JObj([k \in {"input"} |-> JStr("5 + 3")])

SelectPayloads ==
  {JTok(v) : v \in
     {SelectObject(JStr("calculator"), "entities", InputBag),
      SelectObject(JStr("calculator"), "entitites", InputBag),
      SelectObject(JStr("calculator"), "entities", JObj([k \in {"expression"} |-> JStr("5 + 3")])),
      SelectObject(JStr("calculator"), "entities", JNum(5)),
      SelectObject(JStr("trigonometry"), "entities", InputBag),
      SelectObject(JStr("none"), "entities", JObj(EmptyF)),
      SelectObject(JList, "entities", InputBag),
      JObj([k \in {"tool_name"} |-> JStr("calculator")]),
      JObj([k \in {"entities"} |-> InputBag]),
      JList}}
    \cup {Tok("use the calculator")}

SelectBehaviours ==
  {ModelRaises("model crashed")}
    \cup {ModelReturns(Wrap(Plain, tok)) : tok \in SelectPayloads}
    \cup {ModelReturns(Wrap(JsonFence, JTok(SelectObject(JStr("calculator"), "entieties", InputBag))))}

ToolBehaviours ==
  {ToolRaises("division by zero"), ToolReturns(JStr("25.0 + 17.0 = 42")), ToolReturns(JStr("")),
   ToolReturns(JNum(42)), ToolReturns(JNull)}

\* a decoded tool selection with the three spellings of the entities key
SelectSpellings(name, e1, e2, e3) ==
  JObj([k \in {"tool_name", "entities", "entieties", "entitites"} |->
          CASE k = "tool_name" -> name
            [] k = "entities" -> e1
            [] k = "entieties" -> e2
            [] OTHER -> e3])

ExpressionBag == JObj([k \in {"expression"} |-> JStr("5 + 3")])

NestedBag == JObj([k \in {"input"} |-> InputBag])

\* the tool selections a directly called agent is driven with
AgentSelectPayloads ==
  SelectPayloads \cup
  {JTok(v) : v \in
     {SelectSpellings(JStr("calculator"), JObj(EmptyF), ExpressionBag, InputBag),
      SelectSpellings(JStr("calculator"), JNull, JNull, ExpressionBag),
      SelectSpellings(JStr("calculator"), ExpressionBag, InputBag, InputBag),
      SelectSpellings(JStr("get_time"), JObj(EmptyF), JObj(EmptyF), JObj(EmptyF)),
      SelectObject(JStr("calculator"), "entities", NestedBag),
      SelectObject(JStr("calculator"), "entities", JStr("5 + 3")),
      SelectObject(JStr("calculator"), "entities", JStr("the input")),
      SelectObject(JStr("get_time"), "parameters", InputBag),
      SelectObject(JNull, "entities", InputBag),
      JNum(5)}}

AgentSelectBehaviours ==
  SelectBehaviours \cup {ModelReturns(Wrap(Plain, tok)) : tok \in AgentSelectPayloads}

\* intent names a directly called agent is given
AgentIntents == {JStr("greeting"), JStr("out_of_scope"), JStr("calculate")}

\* keyword arguments of a direct Tool.call
KwargBags == {JObj(EmptyF), InputBag, ExpressionBag}

SynthBehaviours ==
  {ModelRaises("model crashed"),
   ModelReturns(<<WS, Tok("The answer is 42."), WS>>),
   ModelReturns(<<>>)}

(***************************************************************************)
(* State machine                                                           *)
(***************************************************************************)
\* no call is in progress and no result is pending
Idle == [op |-> "idle"]

InitTools ==
  [greeter |-> EmptyF,
   calc |-> [n \in {"calculator"} |-> "calculator"],
   bare |-> [n \in {"calculator"} |-> "calculator"]]

\* RollingMemory.__init__: capacity: int = 10
DefaultCapacity == 10

Init ==
  /\ agents = EmptyF
  /\ intent_definitions = <<>>
  /\ tools = InitTools
  /\ last = Idle
  /\ capacity = DefaultCapacity
  /\ memory = <<>>
  /\ added = <<>>

\* orchestrator.register_agent(intent, AgentTable[a]) for a name and an agent of the given sets
RegisterAgentFrom(names, ags) ==
  \E intent \in names, a \in ags :
    \E r \in {RegisterAgentOp(agents, intent_definitions, intent, a)} :
      /\ last = Idle
      /\ agents' = r.agents
      /\ intent_definitions' = r.defs
      /\ last' = [op |-> "register_agent", intent |-> intent, agent |-> a, exc |-> r.exc]
      /\ UNCHANGED <<tools, memvars>>

\* orchestrator.register_agent(intent, AgentTable[a])
RegisterAgent == RegisterAgentFrom(IntentNames, RoutedAgents)

\* classifier.classify(user_input) with the model behaving as beh
ClassifyCall ==
  /\ last = Idle
  /\ \E p \in {BuildClassificationPrompt(intent_definitions)}, beh \in ClassifyBehaviours :
       \E r \in {Classify(p.registry, "llm", beh)} :
         /\ last' = [op |-> "classify", beh |-> beh, exc |-> r.exc, intent |-> r.val]
         /\ intent_definitions' = p.registry
         /\ UNCHANGED <<agents, tools, memvars>>

\* a tool callable ran among the calls of events
ToolInvoked(events) == \E i \in 1..Len(events) : events[i].kind = "tool"

DefaultSelect == ModelRaises("model crashed")

DefaultTool == ToolRaises("division by zero")

\* orchestrator.execute(user_request); the behaviours of calls that are never made are not varied
Execute ==
  \E clsbeh \in ExecuteBehaviours, p \in {BuildClassificationPrompt(intent_definitions)} :
    LET Run(selbeh, toolbeh, synbeh) ==
          OrchExecute(agents, p.registry, tools, clsbeh, selbeh, toolbeh, synbeh)
        Done(r) == /\ last' = [op |-> "execute", cls |-> clsbeh] @@ r
                   /\ intent_definitions' = p.registry
                   /\ UNCHANGED <<agents, tools, memvars>>
    IN /\ last = Idle
       /\ \E probe \in {Run(DefaultSelect, DefaultTool, DefaultSelect)} :
            IF probe.agent = "none" THEN Done(probe)
            ELSE IF DOMAIN tools[probe.agent] = {}
              THEN \E synbeh \in SynthBehaviours :
                     Done(Run(DefaultSelect, DefaultTool, synbeh))
            ELSE \E selbeh \in SelectBehaviours, synbeh \in SynthBehaviours :
                   IF ToolInvoked(UseTool(probe.agent, tools[probe.agent], selbeh,
                                          DefaultTool).events)
                     THEN \E toolbeh \in ToolBehaviours : Done(Run(selbeh, toolbeh, synbeh))
                     ELSE Done(Run(selbeh, DefaultTool, synbeh))

\* the caller has taken the result of the last call; the next call can start
Return ==
  /\ last # Idle
  /\ last' = Idle
  /\ UNCHANGED <<agents, intent_definitions, tools, memvars>>

Next == RegisterAgent \/ ClassifyCall \/ Execute \/ Return

Spec == Init /\ [][Next]_vars

(***************************************************************************)
(* State machine of the agents and tools called directly                   *)
(***************************************************************************)
\* AgentTable[a].register_tool(t)
RegisterTool ==
  \E a \in AgentIds, t \in ToolIds :
    /\ last = Idle
    /\ tools' = [tools EXCEPT ![a] = RegisterToolOp(tools[a], t)]
    /\ last' = [op |-> "register_tool", agent |-> a, tool |-> t]
    /\ UNCHANGED <<agents, intent_definitions, memvars>>

\* t.call(**kwargs) with the wrapped callable behaving as beh
ToolCallCall ==
  \E t \in ToolIds, kwargs \in KwargBags, beh \in ToolBehaviours :
    \E r \in {ToolCall(beh)} :
      /\ last = Idle
      /\ last' = [op |-> "tool_call", tool |-> t, kwargs |-> kwargs, beh |-> beh,
                  exc |-> r.exc, text |-> r.text]
      /\ UNCHANGED <<agents, intent_definitions, tools, memvars>>

\* AgentTable[a].execute(user_request, Intent(name=intent)); the behaviours of calls
\* that are never made are not varied
AgentExecuteCall ==
  \E a \in AgentIds, intent \in AgentIntents :
    LET Done(selbeh, toolbeh, synbeh) ==
          \E r \in {AgentExecute(a, tools[a], intent, selbeh, toolbeh, synbeh)} :
            /\ last' = [op |-> "agent_execute", agent |-> a, intent |-> intent,
                        sel |-> selbeh, tool |-> toolbeh, syn |-> synbeh] @@ r
            /\ UNCHANGED <<agents, intent_definitions, tools, memvars>>
    IN /\ last = Idle
       /\ IF AgentTable[a].model = "None" THEN Done(DefaultSelect, DefaultTool, DefaultSelect)
          ELSE IF DOMAIN tools[a] = {}
            THEN \E synbeh \in SynthBehaviours : Done(DefaultSelect, DefaultTool, synbeh)
          ELSE \E selbeh \in AgentSelectBehaviours, synbeh \in SynthBehaviours :
                 IF ToolInvoked(UseTool(a, tools[a], selbeh, DefaultTool).events)
                   THEN \E toolbeh \in ToolBehaviours : Done(selbeh, toolbeh, synbeh)
                   ELSE Done(selbeh, DefaultTool, synbeh)

AgentNext == RegisterTool \/ ToolCallCall \/ AgentExecuteCall \/ Return

AgentSpec == Init /\ [][AgentNext]_vars

(***************************************************************************)
(* Properties                                                              *)
(***************************************************************************)
\* the registered name a fallback classification is expected to carry
FallbackName ==
  IF \E i \in 1..Len(intent_definitions) : intent_definitions[i].name = "out_of_scope"
    THEN "out_of_scope"
  ELSE IF intent_definitions = <<>> THEN "out_of_scope"
  ELSE Head(intent_definitions).name

\* what json.loads makes of the sanitized response of the last classify call
LastParsed == JsonLoads(Sanitize(Strip(last.beh.text)))

Registered(name) == name.t = "str" /\ name.s \in DOMAIN agents

AgentEvents == {i \in 1..Len(last.events) : last.events[i].kind = "agent"}

\* C1: AgentOrchestrator.execute never lets an exception reach its caller, whatever
\* agents are registered and whatever the model does on each call (including an
\* 'intent' value that is a list or an object).
C1_ExecuteNeverRaises == last.op = "execute" => last.exc = ""

\* C2: register_agent(I, A) leaves A under I, and when the classification of an
\* execute call returns an intent name with a registered agent A, exactly one agent
\* is delegated to, it is A, and the call returns "[" + A.name + "] " followed by
\* A's response.
C2_RoutesToRegisteredAgent ==
  /\ last.op = "register_agent" =>
       (last.intent \in DOMAIN agents /\ agents[last.intent] = last.agent)
  /\ (last.op = "execute" /\ Registered(last.intent.name)) =>
       LET a == agents[last.intent.name.s]
       IN /\ last.exc = ""
          /\ Cardinality(AgentEvents) = 1
          /\ \A i \in AgentEvents : last.events[i].id = a
          /\ last.agent = a
          /\ last.ret = <<Tok("[" \o AgentTable[a].name \o "] ")>> \o last.response

C2_Witness ==
  /\ last.op = "execute"
  /\ last.intent.name = JStr("calculate")
  /\ "calculate" \in DOMAIN agents
  /\ agents["calculate"] = "calc"
  /\ "greeting" \in DOMAIN agents
  /\ last.ret = <<Tok("[Calculator Agent] "), Tok("The answer is 42.")>>

C4_AgentsHaveIntents == DOMAIN agents \subseteq DefNames(intent_definitions)

\* C5: classify never raises and returns an Intent, for every registry content
\* and every behaviour of the model.
C5_ClassifyNeverRaises ==
  last.op = "classify" =>
    /\ last.exc = ""
    /\ DOMAIN last.intent = {"name", "confidence", "entities", "reasoning"}
    /\ last.intent.confidence \in Int

C5_Witness ==
  /\ last.op = "classify"
  /\ intent_definitions = <<>>
  /\ ~last.beh.raises
  /\ last.beh.text = <<JTok(JList)>>
  /\ last.exc = ""

\* C6: when the response still fails JSON parsing after sanitization, classify
\* returns confidence 0.5 and the default fallback name ('out_of_scope' if
\* registered, otherwise the first registered intent name).
C6_ParseFailureFallback ==
  (last.op = "classify" /\ ~last.beh.raises /\ LastParsed.exc # "") =>
    /\ last.intent.confidence = 50
    /\ last.intent.name = JStr(FallbackName)

\* C7: when the model call raises, classify returns confidence 0.0, empty entities,
\* a reasoning that names the error, and the default fallback name ('out_of_scope'
\* if registered, otherwise the first registered name, 'out_of_scope' when the
\* registry is empty).
C7_GenerationFailureFallback ==
  (last.op = "classify" /\ last.beh.raises) =>
    /\ last.exc = ""
    /\ last.intent.confidence = 0
    /\ last.intent.entities = JObj(EmptyF)
    /\ last.intent.reasoning = JStr("Classification error: " \o last.beh.msg)
    /\ last.intent.name = JStr(FallbackName)

C7_Witness ==
  /\ last.op = "classify"
  /\ last.beh.raises
  /\ Len(intent_definitions) = 2
  /\ intent_definitions[1].name = "calculate"
  /\ intent_definitions[2].name = "greeting"
  /\ last.intent.name = JStr("calculate")

\* C8: when the sanitized response parses as JSON but is not an object or lacks one
\* of the required keys, classify returns the default fallback name with
\* confidence 0.0.
C8_MalformedShapeFallback ==
  (/\ last.op = "classify"
   /\ ~last.beh.raises
   /\ LastParsed.exc = ""
   /\ (LastParsed.val.t # "obj" \/ ~(RequiredKeys \subseteq DOMAIN LastParsed.val.f))) =>
    /\ last.intent.name = JStr(FallbackName)
    /\ last.intent.confidence = 0

\* C9: whenever the intent registry is non-empty, every Intent classify returns
\* carries a name that is a key of the registry.
C9_ClassificationRoutable ==
  (last.op = "classify" /\ intent_definitions # <<>>) =>
    /\ last.intent.name.t = "str"
    /\ last.intent.name.s \in DefNames(intent_definitions)

\* the last classify call got a response that sanitization reduces to a JSON
\* object with all four required keys
C10_Complete ==
  /\ last.op = "classify"
  /\ ~last.beh.raises
  /\ LastParsed.exc = ""
  /\ LastParsed.val.t = "obj"
  /\ RequiredKeys \subseteq DOMAIN LastParsed.val.f

C10_FieldsMatch ==
  /\ last.exc = ""
  /\ last.intent.name = LastParsed.val.f["intent"]
  /\ JNum(last.intent.confidence) = LastParsed.val.f["confidence"]
  /\ last.intent.entities = LastParsed.val.f["entities"]
  /\ last.intent.reasoning = LastParsed.val.f["reasoning"]

\* C10 as stated: for every response that sanitization reduces to a JSON object
\* with all four required keys, the Intent's name, confidence, entities and
\* reasoning are exactly the JSON values.
C10_RoundTripAnyValue == C10_Complete => C10_FieldsMatch

\* C10 as amended: the same, for responses whose 'confidence' value is a JSON number.
C10_RoundTripNumericConfidence ==
  (C10_Complete /\ LastParsed.val.f["confidence"].t = "num") => C10_FieldsMatch

C10_Witness ==
  /\ C10_Complete
  /\ last.beh.text = Wrap(JsonFence, JTok(JObj([BaseObject EXCEPT !.entities =
                            JObj([k \in {"expression"} |-> JStr("5 + 3")])])))
  /\ last.intent.entities = JObj([k \in {"expression"} |-> JStr("5 + 3")])
  /\ last.intent.confidence = 90

\* C11: every Intent returned by classify has a confidence within the closed range
\* [0, 1] (0..100 hundredths), whatever confidence the model's JSON carries.
C11_ConfidenceInRange ==
  last.op = "classify" => (0 <= last.intent.confidence /\ last.intent.confidence <= 100)

\* C12: Tool.call never raises: when the wrapped callable returns v the result is
\* str(v), and when it raises an exception with message m the result is
\* 'Error: ' + m.
C12_ToolCallNeverRaises ==
  last.op = "tool_call" =>
    /\ last.exc = ""
    /\ last.beh.raises => last.text = <<Tok("Error: " \o last.beh.msg)>>
    /\ (~last.beh.raises /\ last.beh.val.t = "str") => last.text = T(last.beh.val.s)
    /\ (~last.beh.raises /\ last.beh.val = JNum(42)) => last.text = <<Tok("42")>>
    /\ (~last.beh.raises /\ last.beh.val = JNull) => last.text = <<Tok("None")>>

C12_Witness ==
  /\ last.op = "tool_call"
  /\ last.beh = ToolRaises("division by zero")
  /\ last.kwargs = InputBag
  /\ last.text = <<Tok("Error: division by zero")>>

\* the last call was Agent.execute and it made the tool-selection model call
SelectCalled ==
  /\ last.op = "agent_execute"
  /\ \E i \in 1..Len(last.events) : last.events[i] = Event("model", "select", JNull)

\* what json.loads makes of the sanitized tool-selection answer of the last call
SelParsed == JsonLoads(Sanitize(Strip(last.sel.text)))

\* the tool-selection answer of the last call decoded to a JSON object
SelObject ==
  /\ SelectCalled
  /\ ~last.sel.raises
  /\ SelParsed.exc = ""
  /\ SelParsed.val.t = "obj"

ToolEvents == {i \in 1..Len(last.events) : last.events[i].kind = "tool"}

SelKey(k) == IF k \in DOMAIN SelParsed.val.f THEN SelParsed.val.f[k] ELSE JNull

\* the parameter bag: the first non-empty of the three spellings, else the empty bag
SelBag ==
  IF JTruthy(SelKey("entities")) THEN SelKey("entities")
  ELSE IF JTruthy(SelKey("entieties")) THEN SelKey("entieties")
  ELSE IF JTruthy(SelKey("entitites")) THEN SelKey("entitites")
  ELSE JObj(EmptyF)

\* the bag after one level of unwrapping
SelFinal ==
  IF SelBag.t = "obj" /\ "input" \in DOMAIN SelBag.f THEN SelBag.f["input"] ELSE SelBag

\* the membership test and the unwrapping of the bag do not raise
SelExtractable ==
  \/ SelBag.t \in {"obj", "list"}
  \/ SelBag.t = "str" /\ ~ContainsInput(SelBag.s)

\* the tool the answer names is registered with the agent of the last call
SelNamesRegistered ==
  /\ "tool_name" \in DOMAIN SelParsed.val.f
  /\ SelParsed.val.f["tool_name"].t = "str"
  /\ SelParsed.val.f["tool_name"].s \in DOMAIN tools[last.agent]

\* the string Tool.call makes of the behaviour of the callable in the last call
ToolString ==
  IF last.tool.raises THEN <<Tok("Error: " \o last.tool.msg)>>
  ELSE IF last.tool.val.t = "str" THEN T(last.tool.val.s)
  ELSE IF last.tool.val.t = "num" THEN <<Tok(ToString(last.tool.val.n))>>
  ELSE <<Tok("None")>>

\* the conversational template of an intent name
ConversationalTemplate(intent) ==
  CASE intent = JStr("greeting") -> "greeting"
    [] intent = JStr("out_of_scope") -> "out_of_scope"
    [] OTHER -> "generic"

\* C13: when the tool-selection JSON has no 'tool_name' key, _use_tool returns None
\* without invoking any tool, and Agent.execute builds its reply from the no-tool
\* conversational template.
C13_MissingToolName ==
  (SelObject /\ "tool_name" \notin DOMAIN SelParsed.val.f) =>
    /\ last.exc = ""
    /\ last.tool_result = None
    /\ ToolEvents = {}
    /\ last.prompt.template = ConversationalTemplate(last.intent)
    /\ last.events[Len(last.events)] = Event("model", ConversationalTemplate(last.intent), JNull)

C13_Witness ==
  /\ SelObject
  /\ last.agent = "calc"
  /\ last.intent = JStr("greeting")
  /\ last.sel.text = <<JTok(JObj([k \in {"entities"} |-> InputBag]))>>
  /\ last.prompt.template = "greeting"
  /\ last.text = <<Tok("The answer is 42.")>>

\* the first half of C14: a tool_name that is not among the registered tools gives
\* None and no tool callable is invoked
C14_UnknownToolIgnored ==
  (SelObject /\ "tool_name" \in DOMAIN SelParsed.val.f /\ ~SelNamesRegistered) =>
    (last.exc = "" /\ last.tool_result = None /\ ToolEvents = {})

\* the second half of C14: exactly the named tool is invoked exactly once and its
\* string result is returned
C14_NamedToolInvokedOnce ==
  /\ last.exc = ""
  /\ Cardinality(ToolEvents) = 1
  /\ \A i \in ToolEvents :
       last.events[i].id = tools[last.agent][SelParsed.val.f["tool_name"].s]
  /\ last.tool_result = Some(ToolString)

\* C14 as stated: a tool_name that is not among the agent's registered tools gives
\* None and invokes no tool; a tool_name that is registered has exactly that tool
\* invoked exactly once and its string result returned.
C14_SelectedToolInvoked ==
  /\ C14_UnknownToolIgnored
  /\ (SelObject /\ SelNamesRegistered) => C14_NamedToolInvokedOnce

\* C14 as amended: the same, the registered tool being invoked when the extraction
\* of the parameter bag does not raise.
C14_SelectedToolInvokedWhenExtracted ==
  /\ C14_UnknownToolIgnored
  /\ (SelObject /\ SelNamesRegistered /\ SelExtractable) => C14_NamedToolInvokedOnce

C14_Witness ==
  /\ SelObject
  /\ last.agent = "greeter"
  /\ DOMAIN tools["greeter"] = {"calculator", "get_time"}
  /\ tools["greeter"]["calculator"] = "abacus"
  /\ SelKey("tool_name") = JStr("get_time")
  /\ last.tool = ToolReturns(JNum(42))
  /\ last.events[2] = Event("tool", "clock", JObj([k \in {"input"} |-> JObj(EmptyF)]))
  /\ last.tool_result = Some(<<Tok("42")>>)

\* C15: when _use_tool invokes the selected tool, the wrapped callable receives the
\* extracted parameters as its keyword arguments: for a bag {p1: v1, ..., pn: vn}
\* it is called with p1=v1, ..., pn=vn, whatever the parameter names (the bag as
\* extracted or as unwrapped).
C15_KwargsAreParameters ==
  (SelObject /\ ToolEvents # {} /\ SelBag.t = "obj") =>
    \A i \in ToolEvents : last.events[i].arg \in {SelBag, SelFinal}

\* C16: the parameter bag is taken from 'entities', or from 'entieties' or
\* 'entitites' (the first non-empty in that order, else the empty bag); a bag with a
\* key 'input' is replaced by the value under that key, one level only, and any
\* other bag is used as is: that value is what the selected tool is called with.
C16_ParameterBag ==
  (SelObject /\ ToolEvents # {}) =>
    \A i \in ToolEvents : last.events[i].arg = JObj([k \in {"input"} |-> SelFinal])

C16_Witness ==
  /\ SelObject
  /\ ToolEvents # {}
  /\ SelKey("entities") = JObj(EmptyF)
  /\ SelKey("entieties") = ExpressionBag
  /\ SelKey("entitites") = InputBag
  /\ last.events[2].arg = JObj([k \in {"input"} |-> ExpressionBag])

\* one level of unwrapping only: a doubly nested 'input' reaches the tool singly nested
C16_NestedWitness ==
  /\ SelObject
  /\ ToolEvents # {}
  /\ SelBag = NestedBag
  /\ last.events[2].arg = JObj([k \in {"input"} |-> InputBag])

\* the last Agent.execute had tools to select from
SelectAttempted == last.op = "agent_execute" /\ DOMAIN tools[last.agent] # {}

\* the selection of the last call failed: no model, the model call raised, the answer
\* is not JSON, the decoded value has no membership test, the tool name is
\* unhashable, or the extraction of the parameter bag raised
SelectionFails ==
  \/ AgentTable[last.agent].model = "None"
  \/ last.sel.raises
  \/ SelParsed.exc # ""
  \/ SelParsed.val.t \in {"num", "null"}
  \/ /\ SelParsed.val.t = "obj"
     /\ "tool_name" \in DOMAIN SelParsed.val.f
     /\ (~SelExtractable \/ SelParsed.val.f["tool_name"].t \in {"list", "obj"})

\* C17: _use_tool never propagates an exception: when the model call raises, the
\* answer is not valid JSON, or a step of parsing or parameter extraction raises, it
\* returns None and no tool is invoked.
C17_UseToolNeverRaises ==
  /\ last.op = "agent_execute" => last.exc = ""
  /\ (SelectAttempted /\ SelectionFails) => (last.tool_result = None /\ ToolEvents = {})

C17_Witness ==
  /\ SelectAttempted
  /\ last.agent = "calc"
  /\ ~last.sel.raises
  /\ SelParsed.exc = ""
  /\ SelKey("tool_name") = JStr("calculator")
  /\ SelKey("entities") = JNum(5)
  /\ last.tool_result = None
  /\ last.text = <<Tok("The answer is 42.")>>

\* the synthesis model call of the last Agent.execute was made and failed
SynthesisFailed ==
  /\ last.op = "agent_execute"
  /\ AgentTable[last.agent].model # "None"
  /\ last.syn.raises

C19_ToolErrorIsResult ==
  (last.op = "agent_execute" /\ ToolEvents # {} /\ last.tool.raises) =>
    LET error == <<Tok("Error: " \o last.tool.msg)>>
    IN /\ last.exc = ""
       /\ last.tool_result = Some(error)
       /\ last.prompt = [template |-> "tool_response", arg |-> error]
       /\ last.events[Len(last.events)] = Event("model", "tool_response", JNull)
       /\ last.text = IF last.syn.raises THEN error ELSE Strip(last.syn.text)

C19_Witness ==
  /\ last.op = "agent_execute"
  /\ ToolEvents # {}
  /\ last.tool = ToolRaises("division by zero")
  /\ last.syn.raises
  /\ last.text = <<Tok("Error: division by zero")>>

IsModelCall(e) == e.kind = "model"

\* the model invocations of the last execute call, in the order they were made
ModelCalls == SelectSeq(last.events, IsModelCall)

SynthesisIds == {"tool_response", "greeting", "out_of_scope", "generic"}

\* the invocations are classification, then at most one tool selection, then at most
\* one synthesis
C20_InOrder ==
  \/ Len(ModelCalls) = 1 /\ ModelCalls[1].id = "classify"
  \/ /\ Len(ModelCalls) = 2
     /\ ModelCalls[1].id = "classify"
     /\ ModelCalls[2].id \in SynthesisIds \cup {"select"}
  \/ /\ Len(ModelCalls) = 3
     /\ ModelCalls[1].id = "classify"
     /\ ModelCalls[2].id = "select"
     /\ ModelCalls[3].id \in SynthesisIds

\* a tool callable runs at most once, right after the tool selection and right
\* before the synthesis
C20_ToolBetween ==
  /\ Cardinality(ToolEvents) <= 1
  /\ \A i \in ToolEvents :
       /\ i < Len(last.events)
       /\ last.events[i - 1] = Event("model", "select", JNull)
       /\ IsModelCall(last.events[i + 1])
       /\ last.events[i + 1].id \in SynthesisIds

\* C20 as stated: one execute call makes its model invocations in the order
\* classification, tool selection, synthesis, each at most once: exactly 1 when no
\* agent is registered for the intent, exactly 2 when the routed agent owns no
\* tools, exactly 3 when it owns at least one; a tool callable runs only between
\* tool selection and synthesis.
C20_CallOrder ==
  last.op = "execute" =>
    /\ C20_InOrder
    /\ C20_ToolBetween
    /\ last.agent = "none" => Len(ModelCalls) = 1
    /\ (last.agent # "none" /\ DOMAIN tools[last.agent] = {}) => Len(ModelCalls) = 2
    /\ (last.agent # "none" /\ DOMAIN tools[last.agent] # {}) => Len(ModelCalls) = 3

\* C20 as amended: the same for a routed agent that has a model handle; a routed
\* agent without one makes no model invocation after the classification and runs
\* no tool callable.
C20_CallOrderWithModel ==
  last.op = "execute" =>
    /\ C20_InOrder
    /\ C20_ToolBetween
    /\ last.agent = "none" => Len(ModelCalls) = 1
    /\ (last.agent # "none" /\ AgentTable[last.agent].model = "None") =>
         (Len(ModelCalls) = 1 /\ ToolEvents = {})
    /\ (/\ last.agent # "none"
        /\ AgentTable[last.agent].model # "None"
        /\ DOMAIN tools[last.agent] = {}) => Len(ModelCalls) = 2
    /\ (/\ last.agent # "none"
        /\ AgentTable[last.agent].model # "None"
        /\ DOMAIN tools[last.agent] # {}) => Len(ModelCalls) = 3

C20_Witness ==
  /\ last.op = "execute"
  /\ last.agent = "calc"
  /\ last.events = <<Event("model", "classify", JNull),
                     Event("agent", "calc", JNull),
                     Event("model", "select", JNull),
                     Event("tool", "calculator", JObj([k \in {"input"} |-> JStr("5 + 3")])),
                     Event("model", "tool_response", JNull)>>
  /\ last.ret = <<Tok("[Calculator Agent] "), Tok("Error: division by zero")>>

\* C21: in Agent.execute the synthesis prompt is the tool-result template whenever a
\* tool was invoked and produced a result, whatever string the tool returned, and
\* otherwise the conversational template chosen by intent name: 'greeting' for
\* greeting, 'out_of_scope' for out_of_scope, the generic template for any other name.
C21_SynthesisTemplate ==
  (last.op = "agent_execute" /\ last.exc = "" /\ AgentTable[last.agent].model # "None") =>
    last.prompt.template = IF ToolEvents # {} THEN "tool_response"
                           ELSE ConversationalTemplate(last.intent)

(***************************************************************************)
(* AgentOrchestrator.execute called twice in a row                         *)
(***************************************************************************)
\* the behaviours of a deterministic stub: one per prompt of an execute call
RepeatClassify ==
  {ModelRaises("model crashed"),
   ModelReturns(<<JTok(JObj(BaseObject))>>),
   ModelReturns(<<JTok(JObj([BaseObject EXCEPT !.intent = JList]))>>)}

RepeatSelect ==
  {ModelRaises("model crashed"),
   ModelReturns(<<JTok(SelectObject(JStr("calculator"), "entities", InputBag))>>)}

RepeatTool == {ToolRaises("division by zero"), ToolReturns(JStr("25.0 + 17.0 = 42"))}

RepeatSynth == {ModelRaises("model crashed"), ModelReturns(<<WS, Tok("The answer is 42."), WS>>)}

\* orchestrator.execute(user_request), the stub's answers kept for the next call
ExecuteOnce ==
  /\ last = Idle
  /\ \E p \in {BuildClassificationPrompt(intent_definitions)}, clsbeh \in RepeatClassify,
        selbeh \in RepeatSelect, toolbeh \in RepeatTool, synbeh \in RepeatSynth :
       \E r \in {OrchExecute(agents, p.registry, tools, clsbeh, selbeh, toolbeh, synbeh)} :
         /\ last' = [op |-> "execute", cls |-> clsbeh, sel |-> selbeh, tool |-> toolbeh,
                     syn |-> synbeh] @@ r
         /\ intent_definitions' = p.registry
         /\ UNCHANGED <<agents, tools, memvars>>

\* orchestrator.execute(user_request) again, same input, same stub and tools
ExecuteAgain ==
  /\ last.op = "execute"
  /\ \E p \in {BuildClassificationPrompt(intent_definitions)} :
       \E r \in {OrchExecute(agents, p.registry, tools, last.cls, last.sel, last.tool,
                             last.syn)} :
         /\ last' = [op |-> "execute_again", first |-> last] @@ r
         /\ intent_definitions' = p.registry
         /\ UNCHANGED <<agents, tools, memvars>>

RepeatNext == RegisterAgent \/ ExecuteOnce \/ ExecuteAgain \/ Return

RepeatSpec == Init /\ [][RepeatNext]_vars

MaxCapacity == 3

\* most entries added between two clears
MaxAdds == 5

\* the (role, text) pairs passed to add
MemoryEntries == {<<role, text>> : role \in {"user", "assistant"}, text \in {"hi", "2 + 2"}}

\* the last n elements of s
LastN(s, n) == SubSeq(s, Len(s) - n + 1, Len(s))

Min(a, b) == IF a < b THEN a ELSE b

\* a bounded buffer that refuses a new element when it is full
DequeAppendKeepsOldest(d, maxlen, x) ==
  IF Len(d) >= maxlen THEN d ELSE Append(d, x)

\* deque(maxlen=maxlen).append(x): a full deque discards its oldest element
DequeAppend(d, maxlen, x) ==
  IF maxlen = 0 THEN d
  ELSE IF Len(d) = maxlen THEN Append(Tail(d), x)
  ELSE Append(d, x)

\* RollingMemory(capacity=N)
MemoryInit ==
  /\ agents = EmptyF
  /\ intent_definitions = <<>>
  /\ tools = InitTools
  /\ last = Idle
  /\ capacity \in 0..MaxCapacity
  /\ memory = <<>>
  /\ added = <<>>

\* memory.add(role, text)
MemoryAdd ==
  \E entry \in MemoryEntries :
    /\ last = Idle
    /\ Len(added) < MaxAdds
    /\ memory' = DequeAppend(memory, capacity, entry)
    /\ added' = Append(added, entry)
    /\ UNCHANGED <<regvars, last, capacity>>

\* memory.clear()
MemoryClear ==
  /\ last = Idle
  /\ memory' = <<>>
  /\ added' = <<>>
  /\ UNCHANGED <<regvars, last, capacity>>

\* memory.get()
MemoryGet ==
  /\ last = Idle
  /\ last' = [op |-> "memory_get", entries |-> memory]
  /\ UNCHANGED <<regvars, memvars>>

MemoryNext == MemoryAdd \/ MemoryClear \/ MemoryGet \/ Return

MemorySpec == MemoryInit /\ [][MemoryNext]_vars

\* C23: after any sequence of add and clear calls on RollingMemory(capacity=N), get()
\* returns at most N entries, and they are exactly the last min(N, k) entries added
\* since the most recent clear, oldest first (k the number of adds since then).
C23_RollingWindow ==
  last.op = "memory_get" =>
    /\ Len(last.entries) <= capacity
    /\ last.entries = LastN(added, Min(capacity, Len(added)))

C23_Witness ==
  /\ last.op = "memory_get"
  /\ capacity = 2
  /\ Len(added) = 4
  /\ added[1] # added[3]
  /\ last.entries = <<added[3], added[4]>>

\* C24: AgentOrchestrator.execute changes no registration state: whatever the models
\* and the tool do and however the call ends (routed, unroutable, tool used, any
\* fallback, an exception), orchestrator.agents, the classifier's intent registry and
\* every agent's tools mapping are after the call what they were before it.
C24_ExecuteKeepsRegistrations ==
  [][last'.op = "execute" => UNCHANGED regvars]_vars

C24_Witness ==
  /\ last.op = "execute"
  /\ last.exc = ""
  /\ last.agent = "calc"
  /\ ToolInvoked(last.events)
  /\ Len(intent_definitions) = 2
  /\ DOMAIN agents = {"greeting", "calculate"}

(***************************************************************************)
(* The classifier's registry, written by the orchestrator and directly     *)
(***************************************************************************)
\* descriptions passed to register_intent
Descriptions == {<<>>, <<WS, Tok("Math questions"), WS>>}

\* names and agents the registry is written with
RegistryIntents == {"", "greeting", "calculate"}

RegistryAgents == {"greeter", "calc"}

\* names passed to unregister_intent
UnregisterNames == RegistryIntents \cup {"unknown_x"}

\* orchestrator.register_agent(intent, AgentTable[a])
RegistryRegisterAgent == RegisterAgentFrom(RegistryIntents, RegistryAgents)

\* classifier.register_intent(intent, description)
RegisterIntentCall ==
  \E intent \in RegistryIntents, description \in Descriptions :
    \E r \in {RegisterIntent(intent_definitions, intent, description)} :
      /\ last = Idle
      /\ intent_definitions' = IF r.exc = "" THEN r.val ELSE intent_definitions
      /\ last' = [op |-> "register_intent", intent |-> intent, exc |-> r.exc,
                  before |-> intent_definitions]
      /\ UNCHANGED <<agents, tools, memvars>>

\* classifier.unregister_intent(intent), on the classifier the orchestrator holds
UnregisterIntentCall ==
  \E intent \in UnregisterNames :
    /\ last = Idle
    /\ intent_definitions' = UnregisterIntent(intent_definitions, intent)
    /\ last' = [op |-> "unregister_intent", intent |-> intent, exc |-> "",
                before |-> intent_definitions]
    /\ UNCHANGED <<agents, tools, memvars>>

RegistryNext == RegistryRegisterAgent \/ RegisterIntentCall \/ UnregisterIntentCall \/ Return

RegistrySpec == Init /\ [][RegistryNext]_vars

\* C25: unregister_intent(I) on the classifier held by an orchestrator preserves
\* 'every key of orchestrator.agents has an entry in the intent registry', for every
\* I, one that has a registered agent included.
C25_UnregisterKeepsAgentsRegistered ==
  [][(last'.op = "unregister_intent" /\ DOMAIN agents \subseteq DefNames(intent_definitions))
       => DOMAIN agents' \subseteq DefNames(intent_definitions')]_vars

\* the registry description register_agent derives from an agent
DerivedDescription(a, intent) ==
  Strip(IF AgentTable[a].description # <<>> THEN AgentTable[a].description
        ELSE T("Agent responsible for '" \o intent \o "'"))

\* C26: register_agent(I, B) for a name I that already has an agent leaves exactly
\* one agent under I, namely B: classifications returning I route to B, the registry
\* description of I is the one derived from B, and neither the agents nor the
\* registered intents grow in number.
C26_ReRegisterReplaces ==
  [][(last'.op = "register_agent" /\ last'.intent \in DOMAIN agents) =>
       /\ DOMAIN agents' = DOMAIN agents
       /\ agents'[last'.intent] = last'.agent
       /\ AgentsGet(agents', JStr(last'.intent)) = last'.agent
       /\ Len(intent_definitions') = Len(intent_definitions)
       /\ \E i \in 1..Len(intent_definitions') :
            /\ intent_definitions'[i].name = last'.intent
            /\ intent_definitions'[i].desc = DerivedDescription(last'.agent, last'.intent)]_vars

\* C27: register_intent with an empty intent name raises ValueError and leaves the
\* registry unchanged, so no reachable registry has an empty-string key;
\* unregister_intent of a name that is not registered changes nothing and does not raise.
C27_EmptyNameRejected ==
  /\ "" \notin DefNames(intent_definitions)
  /\ (last.op = "register_intent" /\ last.intent = "") =>
       /\ last.exc = "ValueError"
       /\ intent_definitions = last.before
  /\ (last.op = "unregister_intent" /\ last.intent \notin DefNames(last.before)) =>
       /\ last.exc = ""
       /\ intent_definitions = last.before

C27_Witness ==
  /\ last.op = "register_intent"
  /\ last.intent = ""
  /\ last.exc = "ValueError"
  /\ Len(last.before) = 2

C27_UnregisterWitness ==
  /\ last.op = "unregister_intent"
  /\ last.intent = "unknown_x"
  /\ Len(intent_definitions) = 2

\* C28: when an Agent's model handle is None, Agent.execute does not raise, invokes
\* no tool callable even if tools are registered, makes no response-synthesis call
\* (no model call at all), and returns "I'm not configured properly."
C28_NoModel ==
  (last.op = "agent_execute" /\ AgentTable[last.agent].model = "None") =>
    /\ last.exc = ""
    /\ ToolEvents = {}
    /\ ModelCalls = <<>>
    /\ last.prompt = NoPrompt
    /\ last.tool_result = None
    /\ last.text = <<Tok("I'm not configured properly.")>>

C28_Witness ==
  /\ last.op = "agent_execute"
  /\ last.agent = "bare"
  /\ DOMAIN tools["bare"] = {"calculator", "get_time"}
  /\ last.events = <<>>
  /\ last.text = <<Tok("I'm not configured properly.")>>

(***************************************************************************)
(* The fence stripping of classify and _use_tool, on model responses       *)
(***************************************************************************)
\* longest model response, in tokens
MaxResponseLen == 4

\* the tokens of a model response: fence characters, whitespace, the word json, a payload
ResponseTokens == {BT, AC, WS, JSONWORD, JTok(JObj(EmptyF))}

\* every short response, and a payload inside each of the usual fences
Responses ==
  UNION {[1..n -> ResponseTokens] : n \in 0..MaxResponseLen}
    \cup {Wrap(w, JTok(JObj(BaseObject))) : w \in Wrappers}

\* the re.sub chain applied to the response generate_text returned
SanitizeCall ==
  \E response \in Responses :
    /\ last = Idle
    /\ last' = [op |-> "sanitize", response |-> response, text |-> Sanitize(response)]
    /\ UNCHANGED <<regvars, memvars>>

SanitizeNext == SanitizeCall \/ Return

SanitizeSpec == Init /\ [][SanitizeNext]_vars

\* C29 as stated: the fence stripping applied before JSON parsing removes all leading and
\* trailing fence characters: for every model response the sanitized text neither
\* begins nor ends with a backtick or an acute accent.
C29_NoFenceAtEnds ==
  (last.op = "sanitize" /\ last.text # <<>>) =>
    /\ ~IsTick(Head(last.text))
    /\ ~IsTick(last.text[Len(last.text)])

\* no token of s is a backtick or an acute accent
FenceFree(s) == \A i \in 1..Len(s) : ~IsTick(s[i])

\* the fence characters of the response are one unbroken run at its start and one at
\* its end, whitespace around the response aside
WellFenced(response) == FenceFree(RStripTicks(LStripTicks(Strip(response))))

\* C29 as amended: for every model response whose backticks and acute accents form at
\* most one unbroken run at its start and one at its end, the sanitized text neither
\* begins nor ends with a backtick or an acute accent.
C29_NoFenceAtEndsWellFenced ==
  (last.op = "sanitize" /\ WellFenced(last.response) /\ last.text # <<>>) =>
    /\ ~IsTick(Head(last.text))
    /\ ~IsTick(last.text[Len(last.text)])

C29_Witness ==
  /\ last.op = "sanitize"
  /\ last.response = Wrap(JsonFence, JTok(JObj(BaseObject)))
  /\ WellFenced(last.response)
  /\ last.text = <<JTok(JObj(BaseObject))>>

C29_RunWitness ==
  /\ last.op = "sanitize"
  /\ last.response = <<BT, AC, JTok(JObj(EmptyF)), BT>>
  /\ last.text = <<JTok(JObj(EmptyF))>>

(***************************************************************************)
(* memory.MemoryChatbot                                                    *)
(***************************************************************************)
\* largest max_memory_turns a MemoryChatbot is constructed with
MaxTurns == 2

\* most successful generate_response calls between two clears
MaxChats == 3

\* a memory that holds one entry per turn
ChatbotCapacityTurns(max_memory_turns) == max_memory_turns

\* RollingMemory(capacity=max_memory_turns * 2)
ChatbotCapacity(max_memory_turns) == max_memory_turns * 2

\* MemoryChatbot(model, max_memory_turns=t)
ChatbotInit ==
  /\ agents = EmptyF
  /\ intent_definitions = <<>>
  /\ tools = InitTools
  /\ last = Idle
  /\ capacity \in {ChatbotCapacity(t) : t \in 0..MaxTurns}
  /\ memory = <<>>
  /\ added = <<>>

UserInputs == {T("hi"), T("2 + 2")}

ChatbotBehaviours ==
  {ModelRaises("model crashed"),
   ModelReturns(<<WS, Tok("Hello!"), WS>>),
   ModelReturns(<<>>)}

\* chatbot.generate_response(user_input) with the model behaving as beh
ChatbotGenerate ==
  \E user_input \in UserInputs, beh \in ChatbotBehaviours :
    \E gen \in {GenerateText("llm", beh)} :
      /\ last = Idle
      /\ Len(added) < 2 * MaxChats
      /\ last' = [op |-> "generate_response", user_input |-> user_input, beh |-> beh,
                  exc |-> gen.exc, response |-> gen.text, before |-> memory,
                  added_before |-> added]
      /\ IF gen.exc # ""
           THEN UNCHANGED <<memory, added>>
           ELSE /\ memory' = DequeAppend(DequeAppend(memory, capacity, <<"user", user_input>>),
                                         capacity, <<"assistant", gen.text>>)
                /\ added' = added \o <<<<"user", user_input>>, <<"assistant", gen.text>>>>
      /\ UNCHANGED <<regvars, capacity>>

ChatbotNext == ChatbotGenerate \/ MemoryClear \/ Return

ChatbotSpec == ChatbotInit /\ [][ChatbotNext]_vars

\* C30: after any sequence of generate_response calls (succeeding or failing) and
\* memory clears, the memory holds an even number of entries whose roles alternate
\* 'user', 'assistant' starting with 'user'; a failed generation propagates its
\* exception and adds nothing, a successful one adds the user entry and then the
\* assistant entry, and eviction at capacity 2 * max_memory_turns never leaves a lone
\* half of a turn.
C30_WholeTurns ==
  /\ Len(memory) % 2 = 0
  /\ \A i \in 1..Len(memory) : memory[i][1] = IF i % 2 = 1 THEN "user" ELSE "assistant"
  /\ memory = LastN(added, Min(capacity, Len(added)))
  /\ last.op = "generate_response" =>
       IF last.beh.raises
         THEN /\ last.exc # ""
              /\ memory = last.before
              /\ added = last.added_before
         ELSE /\ last.exc = ""
              /\ added = last.added_before \o
                           <<<<"user", last.user_input>>, <<"assistant", last.response>>>>

C30_Witness ==
  /\ last.op = "generate_response"
  /\ last.exc = ""
  /\ capacity = 2
  /\ Len(added) = 4
  /\ Len(last.before) = 2
  /\ memory = <<<<"user", last.user_input>>, <<"assistant", <<Tok("Hello!")>>>>>>
  /\ last.before[1] # memory[1]

C30_FailureWitness ==
  /\ last.op = "generate_response"
  /\ last.exc = "RuntimeError"
  /\ Len(memory) = 4

====
